---- MODULE Spec2Model ----
(***************************************************************************)
(* Model of the eSIM usage route: the server-side `loader` (configuration  *)
(* check, iccid check, request signing, vendor call, outcome mapping) and  *)
(* the `Usage` page component rendered from the loader's data.             *)
(*                                                                         *)
(* Several invocations of loader run interleaved; an invocation is split   *)
(* at its two awaits (the fetch promise, the response.json() promise).     *)
(* JavaScript values are records with a type tag `t`, so that null,        *)
(* undefined, "", 0 and false stay distinct values.                        *)
(***************************************************************************)
EXTENDS Naturals, Sequences, FiniteSets

VARIABLES cfg, query, pc, timestamp, nonce, hashedPassword, signature,
          sent, response, result, caught, log, outcome, thrown, page

vars == <<cfg, query, pc, timestamp, nonce, hashedPassword, signature,
          sent, response, result, caught, log, outcome, thrown, page>>

(* ------------------------------ bounds --------------------------------- *)

\* number of loader invocations in flight together
NumInv == 2

Inv == 1..NumInv

(* --------------------------- JavaScript values ------------------------- *)

\* a scalar: t is the typeof-like tag, v the literal text
Sc(t, v) == [t |-> t, v |-> v]
Undefined == Sc("undefined", "")
Null == Sc("null", "")
Str(s) == Sc("string", s)

\* a JSON value: a scalar, or an object with optional message / usage fields
JV(t, v, m, u) == [t |-> t, v |-> v, message |-> m, usage |-> u]
Lift(s) == JV(s.t, s.v, Undefined, Undefined)
JUndefined == Lift(Undefined)
JNull == Lift(Null)
Obj(m, u) == JV("object", "", m, u)

\* ToBoolean
Truthy(x) ==
    CASE x.t = "undefined" -> FALSE
      [] x.t = "null" -> FALSE
      [] x.t = "number" -> x.v # "0"
      [] x.t = "boolean" -> x.v = "true"
      [] x.t = "string" -> x.v # ""
      [] OTHER -> TRUE

\* template-literal conversion of a scalar
ToStr(x) ==
    CASE x.t = "undefined" -> "undefined"
      [] x.t = "null" -> "null"
      [] OTHER -> x.v

Digits == <<"0", "1", "2", "3", "4", "5", "6", "7", "8", "9">>

RECURSIVE NatToStr(_)
\* Number.prototype.toString for a non-negative integer
NatToStr(n) == IF n < 10 THEN Digits[n + 1]
               ELSE NatToStr(n \div 10) \o Digits[(n % 10) + 1]

HexDigits == <<"0", "1", "2", "3", "4", "5", "6", "7",
               "8", "9", "a", "b", "c", "d", "e", "f">>

RECURSIVE BytesToHex(_)
\* Buffer.prototype.toString('hex')
BytesToHex(bytes) ==
    IF bytes = <<>> THEN ""
    ELSE HexDigits[(Head(bytes) \div 16) + 1] \o HexDigits[(Head(bytes) % 16) + 1]
         \o BytesToHex(Tail(bytes))

(* ------------------------------ constants ------------------------------ *)

DEVICE_DETAIL_PATH == "/ali/esim/v1/deviceDetail"
NONCE_BYTES == 16
PBKDF2_ITERATIONS == 1000
PBKDF2_KEYLEN == 32

(* ------------------------------- inputs -------------------------------- *)

\* values the four imported configuration constants can have
Config(a, s, k, u) == [MICROESIM_ACCOUNT_ID |-> a, MICROESIM_SALT |-> s,
                       MICROESIM_SECRET_KEY |-> k, PRODUCTION_API_URL |-> u]
AccountIds == {Undefined, Str("acct01")}
Salts == {Str(""), Str("s1")}
SecretKeys == {Undefined, Str("k1")}
BaseUrls == {Str(""), Str("https://vendor.example")}
Configs == {Config(a, s, k, u) : a \in AccountIds, s \in Salts,
                                 k \in SecretKeys, u \in BaseUrls}

\* url.searchParams.get('iccid'): null when the parameter is absent
Queries == {Null, Str(""), Str("89852342022319441027")}

\* Date.now(): the readings the wall clock is sampled at (shortened to ten
\* digits); the wall clock is not monotonic, so invocations draw independently
Instants == {1699999999, 1700000000}

\* crypto.randomBytes(n): the byte strings the generator is sampled at
ByteSeeds == {10, 171}
RandomBytes(n) == {[k \in 1..n |-> (b + k) % 256] : b \in ByteSeeds}

\* HTTP statuses the vendor answers with
Statuses == {200, 404}

\* parsed bodies response.json() resolves with
Bodies == {JNull, Lift(Sc("number", "0")), Lift(Sc("boolean", "false")),
           Lift(Str("")), Obj(Str("not found"), Undefined),
           Obj(Str(""), Undefined), Obj(Undefined, Sc("number", "42"))}

\* a thrown value: an Error object (t = "object", with its name and message)
\* or any other value (a thrown string keeps its text in `name`)
Thrown(t, name, m) == [t |-> t, name |-> name, message |-> m]
NoError == Thrown("none", "", Undefined)
\* what a rejected fetch promise can carry
FetchErrors == {Thrown("object", "TypeError", Str("fetch failed")),
                Thrown("undefined", "", Undefined),
                Thrown("string", "connection reset", Undefined)}
\* what a rejected response.json() promise carries
JsonErrors == {Thrown("object", "SyntaxError", Str("Unexpected token < in JSON"))}
\* reading a property of null
NullDeref(prop) == Thrown("object", "TypeError",
                          Str("Cannot read properties of null (reading '" \o prop \o "')"))
UndefDeref(prop) == Thrown("object", "TypeError",
                           Str("Cannot read properties of undefined (reading '" \o prop \o "')"))

(* ------------------------------- signing ------------------------------- *)

\* crypto.pbkdf2Sync(password, salt, iterations, keylen, digest): a derived
\* key is determined by, and determines, all five arguments
pbkdf2Sync(password, salt, iterations, keylen, digest) ==
    [kdf |-> "pbkdf2", password |-> password, salt |-> salt,
     iterations |-> iterations, keylen |-> keylen, digest |-> digest]

\* the hex text of a digest or derived key
DigestHex(buf) == [hex |-> buf]

\* crypto.createHmac(alg, key).update(msg).digest('hex')
HmacHex(alg, key, msg) == DigestHex([mac |-> "hmac", alg |-> alg, key |-> key, msg |-> msg])

HashedPassword(c) ==
    DigestHex(pbkdf2Sync(c.MICROESIM_SECRET_KEY.v, c.MICROESIM_SALT.v,
                         PBKDF2_ITERATIONS, PBKDF2_KEYLEN, "sha256"))

\* the fields in the order account, timestamp, nonce
StringToSign_swapped(c, n, ts) == c.MICROESIM_ACCOUNT_ID.v \o "," \o ts \o "," \o n

\* `${MICROESIM_ACCOUNT_ID},${nonce},${timestamp}`
StringToSign(c, n, ts) == c.MICROESIM_ACCOUNT_ID.v \o "," \o n \o "," \o ts

Signature(hp, sts) == HmacHex("sha256", hp, sts)

\* JSON.stringify({iccid: iccid}) for an iccid without characters to escape
RequestBody(ic) == "{\"iccid\":\"" \o ic.v \o "\"}"

ApiUrl(c) == c.PRODUCTION_API_URL.v \o DEVICE_DETAIL_PATH

FetchRequest(c, ic, n, ts, sig) ==
    [url |-> ApiUrl(c), method |-> "POST",
     ContentType |-> "application/json",
     ACCOUNT |-> c.MICROESIM_ACCOUNT_ID.v,
     NONCE |-> n, TIMESTAMP |-> ts, SIGN |-> sig,
     body |-> RequestBody(ic)]

\* a local that has not been assigned
NoSignature == DigestHex([mac |-> "none"])

(* ------------------------------ outcomes ------------------------------- *)

\* json(body, {status}): the body's fields (Undefined = field not present)
\* and the HTTP status of the loader's response
Json(data, error, ic, apiResponse, bodyStatus, httpStatus) ==
    [data |-> data, error |-> error, iccid |-> ic, apiResponse |-> apiResponse,
     bodyStatus |-> bodyStatus, status |-> httpStatus]

NoOutcome == Json(JUndefined, Undefined, Undefined, JUndefined, Undefined, 0)

ConfigErrorOutcome ==
    Json(JNull,
         Str("Environment variables (Keys/Salt/URL) are missing in MiniOxygen/Oxygen."),
         Undefined, JUndefined, Sc("number", "500"), 500)

MissingInputOutcome == Json(JNull, Null, Null, JUndefined, Undefined, 200)

\* { data: result || null, iccid }
SuccessOutcome_orNull(res, ic) ==
    Json(IF Truthy(res) THEN res ELSE JNull, Undefined, ic, JUndefined, Undefined, 200)

\* json({ data: result, iccid: iccid }, { status: 200 })
SuccessOutcome(res, ic) == Json(res, Undefined, ic, JUndefined, Undefined, 200)

\* result.message || `Third-party API request failed with status: ${response.status}`
VendorMessage(res, status) ==
    IF Truthy(res.message) THEN res.message
    ELSE Str("Third-party API request failed with status: " \o NatToStr(status))

VendorErrorOutcome(res, status, ic) ==
    Json(JNull, VendorMessage(res, status), ic, res, Undefined, status)

TransportErrorOutcome(error, ic) ==
    Json(JNull, Str("Network or internal server error: " \o ToStr(error.message)),
         ic, JUndefined, Undefined, 500)

\* console.error('API Fetch Error:', error, hashedPassword)
FetchErrorLog_leak(i, error) == <<"API Fetch Error:", error, hashedPassword[i]>>

\* console.error('API Fetch Error:', error)
FetchErrorLog(i, error) == <<"API Fetch Error:", error>>

(* -------------------------------- page --------------------------------- *)

View(view, error, ic, apiResponse, data) ==
    [view |-> view, error |-> error, iccid |-> ic,
     apiResponse |-> apiResponse, data |-> data]

NoPage == View("none", Undefined, Undefined, JUndefined, JUndefined)

\* the Usage component, as a function of useLoaderData()
Usage(d) ==
    IF Truthy(d.error) /\ Truthy(d.iccid)
    THEN View("error", d.error, d.iccid,
              IF Truthy(d.apiResponse) THEN d.apiResponse ELSE JUndefined,
              JUndefined)
    ELSE IF Truthy(d.data) /\ Truthy(d.iccid)
    THEN View("success", Undefined, d.iccid, JUndefined, d.data)
    ELSE View("prompt", Undefined, Undefined, JUndefined, JUndefined)

(* ------------------------------- loader -------------------------------- *)

\* the check without the base URL
ConfigMissing_noUrl(c) ==
    \/ ~Truthy(c.MICROESIM_ACCOUNT_ID)
    \/ ~Truthy(c.MICROESIM_SALT)
    \/ ~Truthy(c.MICROESIM_SECRET_KEY)

\* if (!MICROESIM_ACCOUNT_ID || !MICROESIM_SALT || !MICROESIM_SECRET_KEY || !PRODUCTION_API_URL)
ConfigMissing(c) ==
    \/ ~Truthy(c.MICROESIM_ACCOUNT_ID)
    \/ ~Truthy(c.MICROESIM_SALT)
    \/ ~Truthy(c.MICROESIM_SECRET_KEY)
    \/ ~Truthy(c.PRODUCTION_API_URL)

\* the started invocations other than i
Others(i) == {j \in Inv \ {i} : pc[j] # "init"}

\* iccid kept in a variable of the module: every invocation reads the value
\* another started invocation has written
iccid_shared(i) == IF Others(i) = {} THEN query[i]
                   ELSE query[CHOOSE j \in Others(i) : TRUE]

\* const iccid = url.searchParams.get('iccid')
iccid(i) == query[i]

\* if (iccid === null)
IccidMissing_nullOnly(ic) == ic.t = "null"

\* if (!iccid)
IccidMissing(ic) == ~Truthy(ic)

\* loader returns `out`; the route renders Usage from it
Return(i, out) ==
    /\ pc' = [pc EXCEPT ![i] = "done"]
    /\ outcome' = [outcome EXCEPT ![i] = out]
    /\ page' = [page EXCEPT ![i] = Usage(out)]
    /\ UNCHANGED thrown

\* loader's promise rejects with `e`
Throw(i, e) ==
    /\ pc' = [pc EXCEPT ![i] = "threw"]
    /\ thrown' = [thrown EXCEPT ![i] = e]
    /\ UNCHANGED <<outcome, page>>

\* the catch block
Catch(i, error) ==
    /\ caught' = [caught EXCEPT ![i] = error]
    /\ log' = [log EXCEPT ![i] = Append(log[i], FetchErrorLog(i, error))]
    /\ IF error.t = "null" THEN Throw(i, NullDeref("message"))
       ELSE IF error.t = "undefined" THEN Throw(i, UndefDeref("message"))
       ELSE Return(i, TransportErrorOutcome(error, iccid(i)))

\* loader from its entry to its first await (or an early return)
Call(i) ==
    /\ pc[i] = "init"
    /\ IF ConfigMissing(cfg[i])
       THEN /\ Return(i, ConfigErrorOutcome)
            /\ UNCHANGED <<timestamp, nonce, hashedPassword, signature, sent>>
       ELSE IF IccidMissing(iccid(i))
       THEN /\ Return(i, MissingInputOutcome)
            /\ UNCHANGED <<timestamp, nonce, hashedPassword, signature, sent>>
       ELSE \E now \in Instants, bytes \in RandomBytes(NONCE_BYTES) :
              LET ts == NatToStr(now)
                  n == BytesToHex(bytes)
                  hp == HashedPassword(cfg[i])
                  sig == Signature(hp, StringToSign(cfg[i], n, ts))
              IN /\ timestamp' = [timestamp EXCEPT ![i] = ts]
                 /\ nonce' = [nonce EXCEPT ![i] = n]
                 /\ hashedPassword' = [hashedPassword EXCEPT ![i] = hp]
                 /\ signature' = [signature EXCEPT ![i] = sig]
                 /\ sent' = [sent EXCEPT ![i] =
                               Append(sent[i], FetchRequest(cfg[i], iccid(i), n, ts, sig))]
                 /\ pc' = [pc EXCEPT ![i] = "awaitFetch"]
                 /\ UNCHANGED <<outcome, page, thrown>>
    /\ UNCHANGED <<cfg, query, response, result, caught, log>>

\* the fetch promise resolves with a response of the given status
FetchResolve(i, status) ==
    /\ pc[i] = "awaitFetch"
    /\ response' = [response EXCEPT ![i] = [status |-> status,
                                           ok |-> (status >= 200 /\ status <= 299)]]
    /\ pc' = [pc EXCEPT ![i] = "awaitJson"]
    /\ UNCHANGED <<cfg, query, timestamp, nonce, hashedPassword, signature,
                   sent, result, caught, log, outcome, thrown, page>>

\* the fetch promise rejects (or fetch throws)
FetchReject(i, error) ==
    /\ pc[i] = "awaitFetch"
    /\ Catch(i, error)
    /\ UNCHANGED <<cfg, query, timestamp, nonce, hashedPassword, signature,
                   sent, response, result>>

\* response.json() resolves with the parsed body
JsonResolve(i, body) ==
    /\ pc[i] = "awaitJson"
    /\ result' = [result EXCEPT ![i] = body]
    /\ IF response[i].ok
       THEN /\ Return(i, SuccessOutcome(body, iccid(i)))
            /\ UNCHANGED <<caught, log>>
       ELSE IF body.t = "null"
       THEN Catch(i, NullDeref("message"))
       ELSE /\ Return(i, VendorErrorOutcome(body, response[i].status, iccid(i)))
            /\ UNCHANGED <<caught, log>>
    /\ UNCHANGED <<cfg, query, timestamp, nonce, hashedPassword, signature,
                   sent, response>>

\* response.json() rejects: the body is not JSON
JsonReject(i, error) ==
    /\ pc[i] = "awaitJson"
    /\ Catch(i, error)
    /\ UNCHANGED <<cfg, query, timestamp, nonce, hashedPassword, signature,
                   sent, response, result>>

NoResponse == [status |-> 0, ok |-> FALSE]

InitLocals ==
    /\ pc = [i \in Inv |-> "init"]
    /\ timestamp = [i \in Inv |-> ""]
    /\ nonce = [i \in Inv |-> ""]
    /\ hashedPassword = [i \in Inv |-> NoSignature]
    /\ signature = [i \in Inv |-> NoSignature]
    /\ sent = [i \in Inv |-> <<>>]
    /\ response = [i \in Inv |-> NoResponse]
    /\ result = [i \in Inv |-> JUndefined]
    /\ caught = [i \in Inv |-> NoError]
    /\ log = [i \in Inv |-> <<>>]
    /\ outcome = [i \in Inv |-> NoOutcome]
    /\ thrown = [i \in Inv |-> NoError]
    /\ page = [i \in Inv |-> NoPage]

\* one deployment: every invocation imports the same constants
Init ==
    /\ \E c \in Configs : cfg = [i \in Inv |-> c]
    /\ query \in [Inv -> Queries]
    /\ InitLocals

Step(i) ==
    \/ Call(i)
    \/ \E status \in Statuses : FetchResolve(i, status)
    \/ \E error \in FetchErrors : FetchReject(i, error)
    \/ \E body \in Bodies : JsonResolve(i, body)
    \/ \E error \in JsonErrors : JsonReject(i, error)

Next == \E i \in Inv : Step(i)

Spec == Init /\ [][Next]_vars

(* ------------------- two executions, compared side by side ------------- *)

\* the two executions that are compared
PairInv == {1, 2}
PairSecretKeys == {Str("k1"), Str("k2")}
PairSalts == {Str("s1"), Str("s2")}
PairConfigs == {Config(Str("acct01"), s, k, Str("https://vendor.example")) :
                  s \in PairSalts, k \in PairSecretKeys}

\* two executions of the same request against deployments that differ at most
\* in secret key and salt
InitPair ==
    /\ cfg \in {f \in [Inv -> PairConfigs] : \A i \in Inv \ PairInv : f[i] = f[1]}
    /\ query = [i \in Inv |-> Str("89852342022319441027")]
    /\ InitLocals

NextPair == \E i \in PairInv : Step(i)

PairSpec == InitPair /\ [][NextPair]_vars

(* ------------------------------- claims -------------------------------- *)

Finished(i) == pc[i] \in {"done", "threw"}
Fetched(i) == sent[i] # <<>>
\* response.json() has resolved for invocation i
Parsed(i) == result[i] # JUndefined
\* the fetch or the body parsing of invocation i failed
Failed(i) == caught[i] # NoError /\ ~Parsed(i)
ConfigOk(i) == /\ Truthy(cfg[i].MICROESIM_ACCOUNT_ID)
               /\ Truthy(cfg[i].MICROESIM_SALT)
               /\ Truthy(cfg[i].MICROESIM_SECRET_KEY)
               /\ Truthy(cfg[i].PRODUCTION_API_URL)
Unsigned(i) == /\ timestamp[i] = ""
               /\ nonce[i] = ""
               /\ hashedPassword[i] = NoSignature
               /\ signature[i] = NoSignature
GenericMessage(status) ==
    Str("Third-party API request failed with status: " \o NatToStr(status))
\* what a thrown value says about itself
Description(e) == IF e.t = "object" THEN e.message.v
                  ELSE IF e.t = "string" THEN e.name
                  ELSE ToStr(Sc(e.t, ""))

\* C1: once a non-2xx response's body has parsed, the invocation has returned a
\* VendorError: the vendor's status, the body's message field if it has one and
\* the generic "status N" text otherwise, and the parsed body as apiResponse.
C1_VendorErrorForEveryBody ==
    \A i \in Inv :
      (Parsed(i) /\ ~response[i].ok) =>
        /\ pc[i] = "done"
        /\ outcome[i].status = response[i].status
        /\ outcome[i].error = (IF result[i].message # Undefined THEN result[i].message
                               ELSE GenericMessage(response[i].status))
        /\ outcome[i].apiResponse = result[i]

\* C2: no invocation ends by throwing, and one whose fetch or body parsing
\* failed has returned a TransportError: HTTP 500 and the error's description.
C2_FailuresBecomeTransportError ==
    \A i \in Inv :
      /\ pc[i] # "threw"
      /\ (Finished(i) /\ Failed(i)) =>
           /\ outcome[i].status = 500
           /\ outcome[i].data = JNull
           /\ outcome[i].error =
                Str("Network or internal server error: " \o Description(caught[i]))

\* C3: with a configuration value empty or absent, a called invocation has
\* returned ConfigError (HTTP 500) whatever its iccid, has signed nothing and
\* has sent nothing.
C3_ConfigErrorBeforeAnything ==
    \A i \in Inv :
      (pc[i] # "init" /\ ~ConfigOk(i)) =>
        /\ pc[i] = "done"
        /\ outcome[i].status = 500
        /\ outcome[i].data = JNull
        /\ outcome[i].error =
             Str("Environment variables (Keys/Salt/URL) are missing in MiniOxygen/Oxygen.")
        /\ sent[i] = <<>>
        /\ Unsigned(i)

C3_Witness ==
    \E i, j \in Inv :
      /\ pc[i] = "done" /\ pc[j] = "done"
      /\ ~ConfigOk(i)
      /\ Truthy(query[i]) /\ query[j] = Null
      /\ ~Truthy(cfg[i].PRODUCTION_API_URL) /\ Truthy(cfg[i].MICROESIM_SECRET_KEY)

\* C4: with the configuration complete and the iccid parameter absent or empty,
\* a called invocation has returned MissingInput, has signed nothing and has
\* sent nothing.
C4_MissingInputSendsNothing ==
    \A i \in Inv :
      (pc[i] # "init" /\ ConfigOk(i) /\ query[i] \in {Null, Str("")}) =>
        /\ pc[i] = "done"
        /\ outcome[i].status = 200
        /\ outcome[i].data = JNull
        /\ outcome[i].error = Null
        /\ outcome[i].iccid = Null
        /\ sent[i] = <<>>
        /\ Unsigned(i)

C4_Witness ==
    \E i, j \in Inv :
      /\ pc[i] = "done" /\ pc[j] = "done"
      /\ ConfigOk(i)
      /\ query[i] = Str("") /\ query[j] = Null

\* C5: once a 2xx response's body has parsed, the invocation has returned a
\* Success whose data is the parsed body, falsy or not, and which has no error.
C5_SuccessCarriesParsedBody ==
    \A i \in Inv :
      (Parsed(i) /\ response[i].ok) =>
        /\ pc[i] = "done"
        /\ outcome[i].status = 200
        /\ outcome[i].data = result[i]
        /\ outcome[i].error = Undefined
        /\ outcome[i].apiResponse = JUndefined

C5_Witness ==
    \E i, j \in Inv :
      /\ pc[i] = "done" /\ response[i].ok /\ result[i] = Lift(Sc("number", "0"))
      /\ pc[j] = "done" /\ response[j].ok /\ result[j] = Obj(Undefined, Sc("number", "42"))

C7_OutcomeEchoesIccid ==
    \A i \in Inv : pc[i] = "done" => outcome[i].iccid = query[i]

\* C8: two finished executions of the same request that received the same
\* response or failure, run with configurations that differ at most in secret
\* key and salt, returned (or threw) the same thing and logged the same lines.
C8_SecretsDoNotShow ==
    \A i, j \in PairInv :
      ( /\ Finished(i) /\ Finished(j)
        /\ Fetched(i) /\ Fetched(j)
        /\ cfg[i].MICROESIM_ACCOUNT_ID = cfg[j].MICROESIM_ACCOUNT_ID
        /\ cfg[i].PRODUCTION_API_URL = cfg[j].PRODUCTION_API_URL
        /\ query[i] = query[j]
        /\ response[i] = response[j]
        /\ result[i] = result[j]
        /\ caught[i] = caught[j] ) =>
        /\ pc[i] = pc[j]
        /\ outcome[i] = outcome[j]
        /\ thrown[i] = thrown[j]
        /\ log[i] = log[j]
        /\ page[i] = page[j]

C8_Witness ==
    /\ pc[1] = "done" /\ pc[2] = "done"
    /\ cfg[1].MICROESIM_SECRET_KEY # cfg[2].MICROESIM_SECRET_KEY
    /\ cfg[1].MICROESIM_SALT # cfg[2].MICROESIM_SALT
    /\ caught[1] = caught[2] /\ Failed(1)
    /\ log[1] # <<>> /\ log[1] = log[2]
    /\ signature[1] # signature[2]

\* C9: the page rendered from an error outcome is the error view with the
\* outcome's message, and with the raw vendor payload when the outcome has one.
C9_ErrorOutcomeRendersError ==
    \A i \in Inv :
      (pc[i] = "done" /\ Truthy(outcome[i].error)) =>
        /\ page[i].view = "error"
        /\ page[i].error = outcome[i].error
        /\ (outcome[i].apiResponse # JUndefined =>
              page[i].apiResponse = outcome[i].apiResponse)

\* C10: under every interleaving, the request an invocation sent carries the
\* nonce, timestamp and signature that invocation generated and its own iccid;
\* its outcome echoes its own iccid and carries its own response's status and
\* body; and two finished invocations with the same iccid and the same response
\* or failure ended the same way.
C10_InvocationsIndependent ==
    /\ \A i \in Inv :
         Fetched(i) =>
           /\ sent[i][1].NONCE = nonce[i]
           /\ sent[i][1].TIMESTAMP = timestamp[i]
           /\ sent[i][1].SIGN = signature[i]
           /\ sent[i][1].body = "{\"iccid\":\"" \o query[i].v \o "\"}"
    /\ \A i \in Inv :
         (pc[i] = "done" /\ Fetched(i)) =>
           /\ outcome[i].iccid = query[i]
           /\ (Parsed(i) /\ caught[i] = NoError) =>
                /\ outcome[i].status = response[i].status
                /\ result[i] \in {outcome[i].data, outcome[i].apiResponse}
    /\ \A i, j \in Inv :
         ( /\ Finished(i) /\ Finished(j)
           /\ cfg[i] = cfg[j] /\ query[i] = query[j]
           /\ response[i] = response[j] /\ result[i] = result[j]
           /\ caught[i] = caught[j] ) =>
           /\ pc[i] = pc[j]
           /\ outcome[i] = outcome[j]
           /\ thrown[i] = thrown[j]

C10_Witness ==
    \E i, j \in Inv :
      /\ pc[i] = "awaitJson" /\ pc[j] = "done" /\ Fetched(j)
      /\ nonce[i] # nonce[j] /\ timestamp[i] # timestamp[j]
      /\ response[i] # response[j]
      /\ outcome[j].iccid = query[j]

====
